---- MODULE Spec2Model ----
(***************************************************************************)
(* A model of dataq: the fact store (Database, Db<N>), patterns, and the   *)
(* backtracking query evaluator (QueryState) of src/src/core.rs.           *)
(*                                                                         *)
(* Indices (fact ids, conjunct ids, variable ids) are 0-based as in the    *)
(* source; TLA+ sequences are 1-based, so element i of a Vec is seq[i+1].  *)
(***************************************************************************)
EXTENDS Integers, Sequences, FiniteSets, TLC

VARIABLES
    db,                     \* Database: arity n |-> Db<n>.facts (db1 .. db6)
    pc,                     \* caller's position: "idle" | "returned"
    ret,                    \* outcome of the last direct store call, while pc = "returned"
    running,                \* a QueryState borrows the database
    query,                  \* QueryState.query.elems
    fact_support,           \* QueryState.fact_support
    assignment,             \* QueryState.assignment
    next_unsupported_fact,  \* QueryState.next_unsupported_fact
    trail,                  \* QueryState.trail
    hist,                   \* outcomes of the next() calls made on the evaluator so far
    loc,                    \* position of the evaluator inside next(): "out" | "loop" | "undo"
    peer,                   \* a second QueryState borrowing the same database
    front                   \* the interning frontend: ids, interned, and the query it runs

vars == <<db, pc, ret, running, query, fact_support, assignment,
          next_unsupported_fact, trail, hist, loc, peer, front>>

auxVars == <<loc, peer, front>>

evalVars == <<running, query, fact_support, assignment,
              next_unsupported_fact, trail, hist>>

-----------------------------------------------------------------------------
(* Bounds of the model *)

\* largest number of facts a bucket receives
MaxFacts == 2
\* largest number of conjuncts of a query
MaxConj == 2
\* largest number of next() calls made on one evaluator
MaxCalls == 6
\* largest number of next() calls made after the first one that returned none
MaxAfterNone == 1

\* symbols stored in facts
Syms == {1, 2}
\* variable ids used in queries
Vars == {0, 1}
\* symbols used in queries and in directly built patterns
QSyms == {1}

(* Program constants *)

\* [E; 3]: the length of Tuple<E, N>, whatever N is
TupleLen == 3
\* Database holds db1 .. db6
MaxArity == 6

-----------------------------------------------------------------------------
(* Values *)

Wildcard == <<"PatternAtom::Wildcard">>
PatSym(s) == <<"PatternAtom::Sym", s>>
Var(v) == <<"Atom::Var", v>>
Sym(s) == <<"Atom::Sym", s>>

IsVar(atom) == atom[1] = "Atom::Var"

Range(seq) == {seq[i] : i \in DOMAIN seq}

Min2(a, b) == IF a <= b THEN a ELSE b

SetMax(S) == CHOOSE x \in S : \A y \in S : y <= x

SetMin(S) == CHOOSE x \in S : \A y \in S : x <= y

SeqsUpTo(S, n) == UNION {[1..m -> S] : m \in 0..n}

-----------------------------------------------------------------------------
(* Pattern *)

PatternAtomMatches(pat, sym) ==
    IF pat = Wildcard THEN TRUE ELSE pat[2] = sym

\* zip stops at the shorter of the two sequences
PatternMatches(pattern, fact) ==
    \A i \in 1..Min2(Len(pattern), Len(fact)) : PatternAtomMatches(pattern[i], fact[i])

-----------------------------------------------------------------------------
(* Db<N> and Database *)

EmptyDatabase == [n \in 1..MaxArity |-> <<>>]

Out(status, err, idx, fact) == [status |-> status, err |-> err, idx |-> idx, fact |-> fact]

\* &[Sym] -> [Sym; 3]: succeeds only on a slice of exactly TupleLen elements
TryInto(f) == IF Len(f) = TupleLen THEN [ok |-> TRUE, val |-> f] ELSE [ok |-> FALSE, val |-> <<>>]

DbAddFact(facts, f) == Append(facts, f)

DbAddFactN(facts, f, N) ==
    IF Len(f) # N THEN [status |-> "panic", err |-> "assert_eq", facts |-> facts]
    ELSE LET t == TryInto(f)
         IN  IF t.ok THEN [status |-> "ok", err |-> "", facts |-> DbAddFact(facts, t.val)]
             ELSE [status |-> "panic", err |-> "TryFromSliceError", facts |-> facts]

DatabaseAddFactLenient(d, f) ==
    IF Len(f) \in 1..MaxArity
    THEN LET r == DbAddFactN(d[Len(f)], f, Len(f))
         IN  [status |-> r.status, err |-> r.err, db |-> [d EXCEPT ![Len(f)] = r.facts]]
    ELSE [status |-> "ok", err |-> "", db |-> d]

DatabaseAddFact(d, f) ==
    IF Len(f) \in 1..MaxArity
    THEN LET r == DbAddFactN(d[Len(f)], f, Len(f))
         IN  [status |-> r.status, err |-> r.err, db |-> [d EXCEPT ![Len(f)] = r.facts]]
    ELSE [status |-> "panic", err |-> "InvalidArity", db |-> d]

RECURSIVE Scan(_, _, _, _)
Scan(facts, pattern, next_index, offset) ==
    IF next_index + offset >= Len(facts) THEN Out("none", "", 0, <<>>)
    ELSE IF PatternMatches(pattern, facts[next_index + offset + 1])
         THEN Out("some", "", next_index + offset, facts[next_index + offset + 1])
         ELSE Scan(facts, pattern, next_index, offset + 1)

DbNextMatchSkipFirst(facts, pattern, next_index) ==
    IF next_index > Len(facts) THEN Out("panic", "SliceIndex", 0, <<>>)
    ELSE Scan(facts, pattern, next_index, 1)

\* self.facts[next_index..] panics when next_index is past the end
DbNextMatch(facts, pattern, next_index) ==
    IF next_index > Len(facts) THEN Out("panic", "SliceIndex", 0, <<>>)
    ELSE Scan(facts, pattern, next_index, 0)

DatabaseNextMatch(d, pattern, next_index) ==
    IF Len(pattern) \in 1..MaxArity
    THEN DbNextMatch(d[Len(pattern)], pattern, next_index)
    ELSE Out("panic", "InvalidArity", 0, <<>>)

-----------------------------------------------------------------------------
(* Query *)

LiftedFactVars(lf) == {lf[i][2] : i \in {j \in DOMAIN lf : IsVar(lf[j])}}

QueryVars(q) == UNION {LiftedFactVars(q[k]) : k \in DOMAIN q}

NumVars(q) == IF QueryVars(q) = {} THEN 0 ELSE SetMax(QueryVars(q)) + 1

-----------------------------------------------------------------------------
(* QueryState *)

St(fs, asg, nuf, tr) ==
    [fact_support |-> fs, assignment |-> asg, next_unsupported_fact |-> nuf, trail |-> tr]

QueryStateNew(q) ==
    St([k \in 1..Len(q) |-> 0], [v \in 1..NumVars(q) |-> Wildcard], 0, <<>>)

\* the loop of undo_last: pop the trail entries of conjunct k, freeing their variables
RECURSIVE PopTrail(_, _, _)
PopTrail(asg, tr, k) ==
    IF tr # <<>> /\ tr[Len(tr)][1] = k
    THEN PopTrail([asg EXCEPT ![tr[Len(tr)][2] + 1] = Wildcard], SubSeq(tr, 1, Len(tr) - 1), k)
    ELSE [assignment |-> asg, trail |-> tr]

UndoLastSkip(st) ==
    LET k == st.next_unsupported_fact - 1
        p == PopTrail(st.assignment, st.trail, k)
    IN  St([st.fact_support EXCEPT ![k + 1] = @ + 2], p.assignment, k, p.trail)

\* undo_last without its loop: the cursor moves on, the bindings stay
UndoLastKeepBindings(st) ==
    LET k == st.next_unsupported_fact - 1
    IN  St([st.fact_support EXCEPT ![k + 1] = @ + 1], st.assignment, k, st.trail)

\* undo_last whose loop stops after one trail entry
UndoLastPopOne(st) ==
    LET k == st.next_unsupported_fact - 1
        n == Len(st.trail)
    IN  IF n > 0 /\ st.trail[n][1] = k
        THEN St([st.fact_support EXCEPT ![k + 1] = @ + 1],
                [st.assignment EXCEPT ![st.trail[n][2] + 1] = Wildcard],
                k, SubSeq(st.trail, 1, n - 1))
        ELSE St([st.fact_support EXCEPT ![k + 1] = @ + 1], st.assignment, k, st.trail)

\* undo_last that leaves the cursor on the fact it undoes
UndoLastSameFact(st) ==
    LET k == st.next_unsupported_fact - 1
        p == PopTrail(st.assignment, st.trail, k)
    IN  St(st.fact_support, p.assignment, k, p.trail)

UndoLast(st) ==
    LET k == st.next_unsupported_fact - 1
        p == PopTrail(st.assignment, st.trail, k)
    IN  St([st.fact_support EXCEPT ![k + 1] = @ + 1], p.assignment, k, p.trail)

BuildPattern(lf, asg) ==
    [i \in DOMAIN lf |-> IF IsVar(lf[i]) THEN asg[lf[i][2] + 1] ELSE PatSym(lf[i][2])]

\* the binding loop over the atoms of conjunct k, from position i on
RECURSIVE Bind(_, _, _, _, _, _)
Bind(lf, fact, k, i, asg, tr) ==
    IF i > Len(lf) THEN [assignment |-> asg, trail |-> tr]
    ELSE IF IsVar(lf[i]) /\ asg[lf[i][2] + 1] = Wildcard
         THEN Bind(lf, fact, k, i + 1,
                   [asg EXCEPT ![lf[i][2] + 1] = PatSym(fact[i])],
                   Append(tr, <<k, lf[i][2]>>))
         ELSE Bind(lf, fact, k, i + 1, asg, tr)

Res(status, err, val, st) == [status |-> status, err |-> err, val |-> val, st |-> st]

EmitSkipWildcard(st) ==
    LET bound == SelectSeq(st.assignment, LAMBDA a : a # Wildcard)
    IN  Res("some", "", [i \in DOMAIN bound |-> bound[i][2]], st)

\* the copy of the assignment made at a solution
Emit(st) ==
    IF \E v \in DOMAIN st.assignment : st.assignment[v] = Wildcard
    THEN Res("panic", "MalformedQuery", <<>>, st)
    ELSE Res("some", "", [v \in DOMAIN st.assignment |-> st.assignment[v][2]], st)

\* the while loop of next() with a return of none from any conjunct without
\* support, not only from conjunct 0
RECURSIVE SearchGiveUp(_, _, _)
SearchGiveUp(d, q, st) ==
    LET k == st.next_unsupported_fact
    IN  IF k < Len(st.fact_support)
        THEN LET lf == q[k + 1]
                 m  == DatabaseNextMatch(d, BuildPattern(lf, st.assignment), st.fact_support[k + 1])
             IN  CASE m.status = "some" ->
                        LET b == Bind(lf, m.fact, k, 1, st.assignment, st.trail)
                        IN  SearchGiveUp(d, q, St([st.fact_support EXCEPT ![k + 1] = m.idx],
                                                  b.assignment, k + 1, b.trail))
                   [] m.status = "none" ->
                        Res("none", "", <<>>, [st EXCEPT !.fact_support[k + 1] = 0])
                   [] OTHER -> Res("panic", m.err, <<>>, st)
        ELSE Emit(st)

\* the while loop of next()
RECURSIVE Search(_, _, _)
Search(d, q, st) ==
    LET k == st.next_unsupported_fact
    IN  IF k < Len(st.fact_support)
        THEN LET lf == q[k + 1]
                 m  == DatabaseNextMatch(d, BuildPattern(lf, st.assignment), st.fact_support[k + 1])
             IN  CASE m.status = "some" ->
                        LET b == Bind(lf, m.fact, k, 1, st.assignment, st.trail)
                        IN  Search(d, q, St([st.fact_support EXCEPT ![k + 1] = m.idx],
                                            b.assignment, k + 1, b.trail))
                   [] m.status = "none" ->
                        LET st0 == [st EXCEPT !.fact_support[k + 1] = 0]
                        IN  IF k = 0 THEN Res("none", "", <<>>, st0)
                            ELSE Search(d, q, UndoLast(st0))
                   [] OTHER -> Res("panic", m.err, <<>>, st)
        ELSE Emit(st)

\* next() with the search entered directly when the query has no conjunct
QueryStateNextEmptyOk(d, q, st) ==
    IF st.next_unsupported_fact = Len(st.fact_support)
    THEN IF st.next_unsupported_fact = 0
         THEN Search(d, q, st)
         ELSE Search(d, q, UndoLast(st))
    ELSE IF st.next_unsupported_fact # 0
         THEN Res("panic", "assert_eq", <<>>, st)
         ELSE Search(d, q, st)

QueryStateNext(d, q, st) ==
    IF st.next_unsupported_fact = Len(st.fact_support)
    THEN IF st.next_unsupported_fact = 0
         THEN \* 0 - 1 on a usize: overflow panic, or a wrapped index out of bounds
              Res("panic", "Underflow", <<>>, st)
         ELSE Search(d, q, UndoLast(st))
    ELSE IF st.next_unsupported_fact # 0
         THEN Res("panic", "assert_eq", <<>>, st)
         ELSE Search(d, q, st)

-----------------------------------------------------------------------------
(* Inputs *)

\* facts handed to add_fact when the store is exercised directly: every length
\* 0 .. MaxArity + 1; tuples longer than TupleLen are drawn over one symbol
FactInputs ==
    UNION {[1..n -> IF n <= TupleLen THEN Syms ELSE QSyms] : n \in 0..(MaxArity + 1)}

\* facts loaded before a query is run
LoadedFacts == {<<a, b, c>> : a \in Syms, b \in Syms, c \in QSyms}

\* patterns handed to next_match directly: every length 0 .. MaxArity + 1;
\* patterns longer than TupleLen hold wildcards only
PatternInputs ==
    UNION {[1..n -> IF n <= TupleLen THEN {Wildcard} \cup {PatSym(s) : s \in QSyms}
                    ELSE {Wildcard}] : n \in 0..(MaxArity + 1)}

CursorInputs == 0..(MaxFacts + 1)

QAtoms == {Var(v) : v \in Vars} \cup {Sym(s) : s \in QSyms}

Conjuncts == {<<a, b, Sym(s)>> : a \in QAtoms, b \in QAtoms, s \in QSyms}

Queries == SeqsUpTo(Conjuncts, MaxConj)

-----------------------------------------------------------------------------
(* State machine *)

NoRet == [op |-> "", arg |-> <<>>, cursor |-> 0, status |-> "", err |-> "",
          idx |-> 0, fact |-> <<>>]

NoPeer == [live |-> FALSE, query |-> <<>>, fact_support |-> <<>>, assignment |-> <<>>,
           next_unsupported_fact |-> 0, trail |-> <<>>, hist |-> <<>>]

\* Database::default() of the frontend: empty tables, no query
NoFront == [ids |-> {}, interned |-> <<>>, query |-> <<>>, vars |-> <<>>]

Init ==
    /\ db = EmptyDatabase
    /\ pc = "idle"
    /\ ret = NoRet
    /\ running = FALSE
    /\ query = <<>>
    /\ fact_support = <<>>
    /\ assignment = <<>>
    /\ next_unsupported_fact = 0
    /\ trail = <<>>
    /\ hist = <<>>
    /\ loc = "out"
    /\ peer = NoPeer
    /\ front = NoFront

\* Database::add_fact(f); the borrow held by a live evaluator forbids it
AddFact(f) ==
    /\ pc = "idle"
    /\ ~running
    /\ Len(db[TupleLen]) < MaxFacts
    /\ LET r == DatabaseAddFact(db, f)
       IN  /\ db' = r.db
           /\ ret' = [NoRet EXCEPT !.op = "add_fact", !.arg = f,
                                   !.status = r.status, !.err = r.err]
    /\ pc' = "returned"
    /\ UNCHANGED <<evalVars, auxVars>>

\* Database::next_match(pattern, next_index), called directly
NextMatch(pattern, next_index) ==
    /\ pc = "idle"
    /\ ~running
    /\ LET m == DatabaseNextMatch(db, pattern, next_index)
       IN  ret' = [NoRet EXCEPT !.op = "next_match", !.arg = pattern, !.cursor = next_index,
                                !.status = m.status, !.err = m.err,
                                !.idx = m.idx, !.fact = m.fact]
    /\ pc' = "returned"
    /\ UNCHANGED <<db, evalVars, auxVars>>

\* the caller drops the returned value and goes on
Return ==
    /\ pc = "returned"
    /\ pc' = "idle"
    /\ ret' = NoRet
    /\ UNCHANGED <<db, evalVars, auxVars>>

\* Database::run(query): QueryState::new
Run(q) ==
    /\ pc = "idle"
    /\ ~running
    /\ running' = TRUE
    /\ query' = q
    /\ LET st == QueryStateNew(q)
       IN  /\ fact_support' = st.fact_support
           /\ assignment' = st.assignment
           /\ next_unsupported_fact' = st.next_unsupported_fact
           /\ trail' = st.trail
    /\ hist' = <<>>
    /\ UNCHANGED <<db, pc, ret, auxVars>>

Panicked == hist # <<>> /\ hist[Len(hist)].status = "panic"

Nones == {i \in DOMAIN hist : hist[i].status = "none"}

\* calls made after the first call that returned none
AfterNone == IF Nones = {} THEN 0 ELSE Len(hist) - SetMin(Nones)

\* QueryState::next(), one whole call
next ==
    /\ running
    /\ loc = "out"
    /\ ~Panicked
    /\ Len(hist) < MaxCalls
    /\ AfterNone < MaxAfterNone
    /\ LET r == QueryStateNext(db, query,
                               St(fact_support, assignment, next_unsupported_fact, trail))
       IN  /\ fact_support' = r.st.fact_support
           /\ assignment' = r.st.assignment
           /\ next_unsupported_fact' = r.st.next_unsupported_fact
           /\ trail' = r.st.trail
           /\ hist' = Append(hist, [status |-> r.status, err |-> r.err, val |-> r.val,
                                    support |-> r.st.fact_support])
    /\ UNCHANGED <<db, pc, ret, running, query, auxVars>>

\* the evaluator is dropped; the borrow of the database ends
Drop ==
    /\ running
    /\ running' = FALSE
    /\ query' = <<>>
    /\ fact_support' = <<>>
    /\ assignment' = <<>>
    /\ next_unsupported_fact' = 0
    /\ trail' = <<>>
    /\ hist' = <<>>
    /\ UNCHANGED <<db, pc, ret, auxVars>>

Next ==
    \/ \E f \in LoadedFacts : AddFact(f)
    \/ Return
    \/ \E q \in Queries : Run(q)
    \/ next
    \/ Drop

Spec == Init /\ [][Next]_vars

NextStore ==
    \/ \E f \in FactInputs : AddFact(f)
    \/ \E p \in PatternInputs, c \in CursorInputs : NextMatch(p, c)
    \/ Return

SpecStore == Init /\ [][NextStore]_vars

-----------------------------------------------------------------------------
(* Two evaluators borrowing the same database *)

MaxPeerCalls == 3

\* the queries run twice: every conjunct uses variable 0
PairConjuncts == {<<Var(0), b, Sym(s)>> : b \in QAtoms, s \in QSyms}

PairQueries == SeqsUpTo(PairConjuncts, MaxConj)

PeerSt == St(peer.fact_support, peer.assignment, peer.next_unsupported_fact, peer.trail)

PeerPanicked == peer.hist # <<>> /\ peer.hist[Len(peer.hist)].status = "panic"

\* the conjuncts of q in the order given by the permutation p of its indices
Permute(q, p) == [i \in DOMAIN q |-> q[p[i]]]

Perms(q) == {p \in [DOMAIN q -> DOMAIN q] : \A i, j \in DOMAIN q : p[i] = p[j] => i = j}

\* db.run(q) and db.run(q2) on the same database: two QueryStates, each with
\* its own cursors, assignment and trail
RunTwo(q, q2) ==
    /\ pc = "idle"
    /\ ~running
    /\ ~peer.live
    /\ running' = TRUE
    /\ query' = q
    /\ LET st == QueryStateNew(q)
       IN  /\ fact_support' = st.fact_support
           /\ assignment' = st.assignment
           /\ next_unsupported_fact' = st.next_unsupported_fact
           /\ trail' = st.trail
    /\ hist' = <<>>
    /\ UNCHANGED <<db, pc, ret, loc, front>>
    /\ LET st == QueryStateNew(q2)
       IN  peer' = [live |-> TRUE, query |-> q2, fact_support |-> st.fact_support,
                    assignment |-> st.assignment,
                    next_unsupported_fact |-> st.next_unsupported_fact,
                    trail |-> st.trail, hist |-> <<>>]

\* the same query run twice
RunPair(q) == RunTwo(q, q)

\* a query and a reordering of its conjuncts
RunPerm(q, p) == RunTwo(q, Permute(q, p))

\* a call of next() on the second evaluator that also moved the first
\* evaluator's cursors, as if the two shared them
nextPeerShared ==
    /\ peer.live
    /\ ~PeerPanicked
    /\ Len(peer.hist) < MaxPeerCalls
    /\ LET r == QueryStateNext(db, peer.query, PeerSt)
       IN  /\ peer' = [peer EXCEPT !.fact_support = r.st.fact_support,
                                   !.assignment = r.st.assignment,
                                   !.next_unsupported_fact = r.st.next_unsupported_fact,
                                   !.trail = r.st.trail,
                                   !.hist = Append(@, [status |-> r.status, err |-> r.err,
                                                       val |-> r.val,
                                                       support |-> r.st.fact_support])]
           /\ fact_support' = r.st.fact_support
    /\ UNCHANGED <<db, pc, ret, running, query, assignment, next_unsupported_fact,
                   trail, hist, loc, front>>

\* QueryState::next() on the second evaluator, one whole call
nextPeer ==
    /\ peer.live
    /\ ~PeerPanicked
    /\ Len(peer.hist) < MaxPeerCalls
    /\ LET r == QueryStateNext(db, peer.query, PeerSt)
       IN  peer' = [peer EXCEPT !.fact_support = r.st.fact_support,
                                !.assignment = r.st.assignment,
                                !.next_unsupported_fact = r.st.next_unsupported_fact,
                                !.trail = r.st.trail,
                                !.hist = Append(@, [status |-> r.status, err |-> r.err,
                                                    val |-> r.val,
                                                    support |-> r.st.fact_support])]
    /\ UNCHANGED <<db, pc, ret, evalVars, loc, front>>

NextPair ==
    \/ \E f \in LoadedFacts : AddFact(f)
    \/ Return
    \/ \E q \in PairQueries : RunPair(q)
    \/ next
    \/ nextPeer

SpecPair == Init /\ [][NextPair]_vars

NextPerm ==
    \/ \E f \in LoadedFacts : AddFact(f)
    \/ Return
    \/ \E q \in PairQueries : \E p \in Perms(q) : RunPerm(q, p)
    \/ next
    \/ nextPeer

SpecPerm == Init /\ [][NextPerm]_vars

-----------------------------------------------------------------------------
(* The interning frontend (examples/objects.rs) *)

\* a string is the sequence of its characters

MaxFrontFacts == 2
MaxFrontConj == 1

\* u32::MAX, the id given to an unknown symbol. It stands here at the largest
\* integer TLC represents; like u32::MAX it lies above every id interned()
\* allocates in the stores considered
U32Max == 2147483647

StartsWith(s, prefix) == Len(s) >= Len(prefix) /\ SubSeq(s, 1, Len(prefix)) = prefix

\* ids.get(s): the HashMap ids is the set of its <<key, value>> entries
IdsGet(fr, s) ==
    IF \E e \in fr.ids : e[1] = s
    THEN [found |-> TRUE, id |-> (CHOOSE e \in fr.ids : e[1] = s)[2]]
    ELSE [found |-> FALSE, id |-> 0]

\* ids.insert(s, id)
IdsInsert(ids, s, id) == {e \in ids : e[1] # s} \cup {<<s, id>>}

\* interned() without the lookup: every string is given a fresh id
InternedAlways(fr, s) ==
    LET id == Len(fr.interned)
    IN  [front |-> [fr EXCEPT !.interned = Append(@, s), !.ids = IdsInsert(@, s, id)],
         id |-> id]

\* Database::interned(s)
Interned(fr, s) ==
    LET g == IdsGet(fr, s)
    IN  IF g.found THEN [front |-> fr, id |-> g.id]
        ELSE LET id == Len(fr.interned)
             IN  [front |-> [fr EXCEPT !.interned = Append(@, s),
                                       !.ids = IdsInsert(@, s, id)],
                  id |-> id]

\* fact.iter().map(|s| self.interned(s)).collect(), from position i on
RECURSIVE InternAll(_, _, _, _)
InternAll(fr, fact, i, acc) ==
    IF i > Len(fact) THEN [front |-> fr, fact |-> acc]
    ELSE LET r == Interned(fr, fact[i])
         IN  InternAll(r.front, fact, i + 1, Append(acc, r.id))

\* Atom::from(&str)
AtomFrom(s) == IF StartsWith(s, <<"?">>) THEN <<"Atom::Var", s>> ELSE <<"Atom::Sym", s>>

\* Query::from: every string of every conjunct becomes an atom
FrontQueryFrom(facts) == [k \in DOMAIN facts |-> [i \in DOMAIN facts[k] |-> AtomFrom(facts[k][i])]]

\* the atoms of all conjuncts in order
RECURSIVE Flatten(_)
Flatten(q) == IF q = <<>> THEN <<>> ELSE Head(q) \o Flatten(Tail(q))

\* Itertools::unique: the first occurrence of every element, in order
RECURSIVE Unique(_)
Unique(seq) ==
    IF seq = <<>> THEN <<>>
    ELSE LET init == Unique(SubSeq(seq, 1, Len(seq) - 1))
             x == seq[Len(seq)]
         IN  IF x \in Range(init) THEN init ELSE Append(init, x)

VarNames(q) ==
    LET atoms == SelectSeq(Flatten(q), LAMBDA a : a[1] = "Atom::Var")
    IN  [i \in DOMAIN atoms |-> atoms[i][2]]

\* Query::vars without the call of unique()
FrontQueryVarsAll(q) == VarNames(q)

\* Query::vars
FrontQueryVars(q) == Unique(VarNames(q))

\* id_of_var: collecting (name, id) pairs into a HashMap keeps the last id of a name
IdOfVar(vs, name) == SetMax({i \in DOMAIN vs : vs[i] = name}) - 1

\* to_core with an unknown symbol mapped to id 0
ToCoreZero(fr, vs, atom) ==
    IF atom[1] = "Atom::Sym"
    THEN Sym(IdsGet(fr, atom[2]).id)
    ELSE Var(IdOfVar(vs, atom[2]))

\* the closure to_core of run
ToCore(fr, vs, atom) ==
    IF atom[1] = "Atom::Sym"
    THEN LET g == IdsGet(fr, atom[2]) IN Sym(IF g.found THEN g.id ELSE U32Max)
    ELSE Var(IdOfVar(vs, atom[2]))

\* Query::compile
Compile(fr, vs, q) == [k \in DOMAIN q |-> [i \in DOMAIN q[k] |-> ToCore(fr, vs, q[k][i])]]

\* the closure mapped over the core iterator: variable name -> string
Bindings(fr, ass) == {<<fr.vars[id], fr.interned[ass[id] + 1]>> : id \in DOMAIN ass}

FrontFactStrs == {<<"a">>, <<"b">>, <<"?", "x">>}

FrontFacts == {<<s1, s2, <<"a">>>> : s1 \in FrontFactStrs, s2 \in {<<"a">>, <<"b">>}}

FrontQueryStrs == {<<"a">>, <<"c">>, <<"?", "x">>, <<"?", "y">>}

FrontConjuncts ==
    {<<s1, s2, <<"a">>>> : s1 \in FrontQueryStrs, s2 \in {<<"b">>, <<"?", "x">>, <<"?", "y">>}}

FrontQueries == SeqsUpTo(FrontConjuncts, MaxFrontConj)

\* the frontend's add_fact(fact)
FrontAddFact(fact) ==
    /\ pc = "idle"
    /\ ~running
    /\ Len(db[TupleLen]) < MaxFrontFacts
    /\ LET i == InternAll(front, fact, 1, <<>>)
           r == DatabaseAddFact(db, i.fact)
       IN  /\ front' = i.front
           /\ db' = r.db
           /\ ret' = [NoRet EXCEPT !.op = "objects::add_fact", !.arg = fact,
                                   !.status = r.status, !.err = r.err]
    /\ pc' = "returned"
    /\ UNCHANGED <<evalVars, loc, peer>>

\* the frontend's run(query)
FrontRun(facts) ==
    /\ pc = "idle"
    /\ ~running
    /\ LET q  == FrontQueryFrom(facts)
           vs == FrontQueryVars(q)
           cq == Compile(front, vs, q)
           st == QueryStateNew(cq)
       IN  /\ front' = [front EXCEPT !.query = q, !.vars = vs]
           /\ query' = cq
           /\ fact_support' = st.fact_support
           /\ assignment' = st.assignment
           /\ next_unsupported_fact' = st.next_unsupported_fact
           /\ trail' = st.trail
    /\ running' = TRUE
    /\ hist' = <<>>
    /\ UNCHANGED <<db, pc, ret, loc, peer>>

NextFront ==
    \/ \E f \in FrontFacts : FrontAddFact(f)
    \/ Return
    \/ \E q \in FrontQueries : FrontRun(q)
    \/ next

SpecFront == Init /\ [][NextFront]_vars

-----------------------------------------------------------------------------
(* next() step by step: forward steps, backtrack steps, solution emission *)

\* the queries stepped through: joins on variable 0, a variable repeated
\* inside a conjunct, and queries that never reference variable 0
StepConjuncts == {<<Var(v), b, Sym(s)>> : v \in Vars, b \in {Var(0)} \cup {Sym(t) : t \in QSyms}, s \in QSyms}

StepQueries == SeqsUpTo(StepConjuncts, MaxConj)

\* a conjunct without support that leaves its cursor where the scan ended
KeepCursor(fs, k) == fs

\* self.fact_support[self.next_unsupported_fact] = 0
ResetCursor(fs, k) == [fs EXCEPT ![k + 1] = 0]

HistEntry(r) ==
    [status |-> r.status, err |-> r.err, val |-> r.val, support |-> r.st.fact_support]

\* entry of next(): the test that chooses between undo_last and the assertion
Call ==
    /\ running
    /\ loc = "out"
    /\ ~Panicked
    /\ Len(hist) < MaxCalls
    /\ AfterNone < MaxAfterNone
    /\ IF next_unsupported_fact = Len(fact_support)
       THEN IF next_unsupported_fact = 0
            THEN /\ hist' = Append(hist, [status |-> "panic", err |-> "Underflow",
                                          val |-> <<>>, support |-> fact_support])
                 /\ loc' = "out"
            ELSE /\ loc' = "undo"
                 /\ hist' = hist
       ELSE IF next_unsupported_fact # 0
            THEN /\ hist' = Append(hist, [status |-> "panic", err |-> "assert_eq",
                                          val |-> <<>>, support |-> fact_support])
                 /\ loc' = "out"
            ELSE /\ loc' = "loop"
                 /\ hist' = hist
    /\ UNCHANGED <<db, pc, ret, running, query, fact_support, assignment,
                   next_unsupported_fact, trail, peer, front>>

\* one iteration of the while loop: next_match for conjunct next_unsupported_fact,
\* then either the bindings and the advance, or the reset of the cursor
Forward ==
    /\ running
    /\ loc = "loop"
    /\ next_unsupported_fact < Len(fact_support)
    /\ LET k  == next_unsupported_fact
           lf == query[k + 1]
           m  == DatabaseNextMatch(db, BuildPattern(lf, assignment), fact_support[k + 1])
       IN  CASE m.status = "some" ->
                  LET b == Bind(lf, m.fact, k, 1, assignment, trail)
                  IN  /\ fact_support' = [fact_support EXCEPT ![k + 1] = m.idx]
                      /\ assignment' = b.assignment
                      /\ trail' = b.trail
                      /\ next_unsupported_fact' = k + 1
                      /\ loc' = "loop"
                      /\ hist' = hist
             [] m.status = "none" ->
                  /\ fact_support' = ResetCursor(fact_support, k)
                  /\ UNCHANGED <<assignment, trail, next_unsupported_fact>>
                  /\ IF k = 0
                     THEN /\ loc' = "out"
                          /\ hist' = Append(hist, [status |-> "none", err |-> "",
                                                   val |-> <<>>,
                                                   support |-> fact_support'])
                     ELSE /\ loc' = "undo"
                          /\ hist' = hist
             [] OTHER ->
                  /\ UNCHANGED <<fact_support, assignment, trail, next_unsupported_fact>>
                  /\ loc' = "out"
                  /\ hist' = Append(hist, [status |-> "panic", err |-> m.err,
                                           val |-> <<>>, support |-> fact_support])
    /\ UNCHANGED <<db, pc, ret, running, query, peer, front>>

\* undo_last(), at the start of a call made on a solution or after a conjunct
\* found no support
Backtrack ==
    /\ running
    /\ loc = "undo"
    /\ LET st == UndoLast(St(fact_support, assignment, next_unsupported_fact, trail))
       IN  /\ fact_support' = st.fact_support
           /\ assignment' = st.assignment
           /\ next_unsupported_fact' = st.next_unsupported_fact
           /\ trail' = st.trail
    /\ loc' = "loop"
    /\ UNCHANGED <<db, pc, ret, running, query, hist, peer, front>>

\* the end of next(): the copy of the assignment, or the panic on a Wildcard
EmitSolution ==
    /\ running
    /\ loc = "loop"
    /\ next_unsupported_fact = Len(fact_support)
    /\ hist' = Append(hist, HistEntry(Emit(St(fact_support, assignment,
                                              next_unsupported_fact, trail))))
    /\ loc' = "out"
    /\ UNCHANGED <<db, pc, ret, running, query, fact_support, assignment,
                   next_unsupported_fact, trail, peer, front>>

NextStep ==
    \/ \E f \in LoadedFacts : AddFact(f)
    \/ Return
    \/ \E q \in StepQueries : Run(q)
    \/ Call
    \/ Forward
    \/ Backtrack
    \/ EmitSolution

SpecStep == Init /\ [][NextStep]_vars

\* next() runs synchronously: once called, its loop keeps taking steps until
\* it returns or panics
SpecStepFair ==
    /\ Init /\ [][NextStep]_vars
    /\ WF_vars(Forward) /\ WF_vars(Backtrack) /\ WF_vars(EmitSolution)

-----------------------------------------------------------------------------
(* Properties *)

Last(seq) == seq[Len(seq)]

\* the conjunct lf with every variable replaced by its value under assignment A
Subst(lf, A) == [i \in DOMAIN lf |-> IF IsVar(lf[i]) THEN A[lf[i][2] + 1] ELSE lf[i][2]]

Stored(d, t) == Len(t) \in 1..MaxArity /\ t \in Range(d[Len(t)])

AllVarsReferenced(q) == QueryVars(q) = 0..(NumVars(q) - 1)

\* the assignments of the query's variables under which every conjunct is a stored fact
Satisfying(d, q) ==
    {A \in [1..NumVars(q) -> Syms] : \A k \in DOMAIN q : Stored(d, Subst(q[k], A))}

\* the tuples of fact indices (one per conjunct) that some assignment turns the conjuncts into
SupportTuples(d, q) ==
    {t \in [DOMAIN q -> 0..MaxFacts] :
        /\ \A k \in DOMAIN q : Len(q[k]) \in 1..MaxArity /\ t[k] < Len(d[Len(q[k])])
        /\ \E A \in [1..NumVars(q) -> Syms] :
              \A k \in DOMAIN q : d[Len(q[k])][t[k] + 1] = Subst(q[k], A)}

LexLess(s, t) ==
    \E k \in DOMAIN s : s[k] < t[k] /\ \A m \in 1..(k - 1) : s[m] = t[m]

Solutions == {i \in DOMAIN hist : hist[i].status = "some"}

\* the calls made before the first call that returned none
FirstPass == IF Nones = {} THEN DOMAIN hist ELSE 1..(SetMin(Nones) - 1)

FullMatch(pattern, fact) ==
    /\ Len(pattern) = Len(fact)
    /\ \A i \in DOMAIN pattern : pattern[i] = Wildcard \/ pattern[i] = PatSym(fact[i])

\* C1: once next() has returned none, every later call of next() on the same
\* evaluator returns none too.
C1_Resumability ==
    \A i \in DOMAIN hist : \A j \in DOMAIN hist :
        (i < j /\ hist[i].status = "none") => hist[j].status = "none"

\* C2: every assignment returned by next() turns every conjunct of the query
\* into a fact of the store.
C2_Soundness ==
    \A i \in Solutions : \A k \in DOMAIN query : Stored(db, Subst(query[k], hist[i].val))

\* C3: for a query whose variable ids are all referenced, every satisfying
\* assignment has been returned by some call of next() before the first none.
C3_Completeness ==
    (running /\ AllVarsReferenced(query) /\ Nones # {}) =>
        \A A \in Satisfying(db, query) :
            \E i \in FirstPass : hist[i].status = "some" /\ hist[i].val = A

\* two different solutions of a two-conjunct, two-variable query, then none
C3_Witness ==
    /\ running /\ Len(query) = 2 /\ NumVars(query) = 2 /\ AllVarsReferenced(query)
    /\ Nones # {} /\ SetMin(Nones) >= 3
    /\ hist[1].val # hist[2].val
    /\ Cardinality(Satisfying(db, query)) >= 2

\* C4: up to the first none, no two calls of next() return the same assignment.
C4_NoDuplicates ==
    \A i \in FirstPass : \A j \in FirstPass :
        (i < j /\ hist[i].status = "some" /\ hist[j].status = "some")
            => hist[i].val # hist[j].val

\* C5: the solutions returned by successive calls of next() come in strictly
\* increasing lexicographic order of their supporting fact indices, and no
\* supporting index tuple that satisfies the query is skipped.
C5_EnumerationOrder ==
    /\ \A i \in Solutions : \A j \in Solutions :
          i < j => LexLess(hist[i].support, hist[j].support)
    /\ running =>
          \A t \in SupportTuples(db, query) : \A i \in DOMAIN hist :
              (\/ hist[i].status = "none"
               \/ hist[i].status = "some" /\ LexLess(t, hist[i].support))
                  => \E j \in 1..(i - 1) : hist[j].status = "some" /\ hist[j].support = t

\* C6: a fact accepted for a conjunct in which a variable, unbound on entry,
\* occurs at several positions holds the same symbol at all those positions.
C6_RepeatedVarEquality ==
    (running /\ Len(query) > 0 /\ next_unsupported_fact = Len(query)) =>
        \A e \in Range(trail) :
            LET lf   == query[e[1] + 1]
                fact == db[Len(lf)][fact_support[e[1] + 1] + 1]
                pos  == {i \in DOMAIN lf : lf[i] = Var(e[2])}
            IN  \A i \in pos : \A j \in pos : fact[i] = fact[j]

\* C7: add_fact of a fact of length 1 .. 6 succeeds, appends the fact at the
\* end of the bucket of its length, and leaves every other stored fact in place.
C7_AddFactAccepts ==
    [][(pc = "idle" /\ pc' = "returned" /\ ret'.op = "add_fact"
            /\ Len(ret'.arg) \in 1..MaxArity)
        => (/\ ret'.status = "ok"
            /\ db' = [db EXCEPT ![Len(ret'.arg)] = Append(@, ret'.arg)])]_vars

\* C8: add_fact of a fact, and next_match of a pattern, of length 0 or of
\* length above 6 fail with InvalidArity and leave the stored facts unchanged.
C8_ArityErrors ==
    [][(pc = "idle" /\ pc' = "returned" /\ ret'.op \in {"add_fact", "next_match"}
            /\ Len(ret'.arg) \notin 1..MaxArity)
        => (ret'.status = "panic" /\ ret'.err = "InvalidArity" /\ db' = db)]_vars

\* add_fact was refused a fact of length 7 while the store holds a fact
C8_Witness ==
    /\ pc = "returned" /\ ret.op = "add_fact" /\ Len(ret.arg) = MaxArity + 1
    /\ ret.status = "panic" /\ ret.err = "InvalidArity"
    /\ db[TupleLen] # <<>>

\* C9: when the evaluator stands on a solution state while some assignment
\* slot is still Wildcard, next() has failed with MalformedQuery and returned
\* no assignment.
C9_MalformedQuery ==
    (running /\ Len(query) > 0 /\ next_unsupported_fact = Len(query)
        /\ \E v \in DOMAIN assignment : assignment[v] = Wildcard)
    => (/\ hist # <<>>
        /\ Last(hist).status = "panic"
        /\ Last(hist).err = "MalformedQuery"
        /\ Last(hist).val = <<>>)

\* a two-conjunct query that uses variable 1 but not variable 0 found support
\* for both conjuncts
C9_Witness ==
    /\ running /\ Len(query) = 2 /\ ~AllVarsReferenced(query)
    /\ next_unsupported_fact = Len(query)
    /\ Panicked /\ Last(hist).err = "MalformedQuery"

EmittedBeforeNone(h) ==
    LET nones == {i \in DOMAIN h : h[i].status = "none"}
    IN  {h[i].val : i \in {j \in 1..(SetMin(nones) - 1) : h[j].status = "some"}}

\* C12: reordering the conjuncts of a query leaves unchanged the set of
\* assignments returned before the first none.
C12_ConjunctOrderIndependence ==
    (/\ peer.live
     /\ \E i \in DOMAIN hist : hist[i].status = "none"
     /\ \E i \in DOMAIN peer.hist : peer.hist[i].status = "none")
    => EmittedBeforeNone(hist) = EmittedBeforeNone(peer.hist)

\* the frontend query holds a symbol string that add_fact never interned
UnknownSymbol ==
    \E k \in DOMAIN front.query : \E i \in DOMAIN front.query[k] :
        front.query[k][i][1] = "Atom::Sym" /\ ~IdsGet(front, front.query[k][i][2]).found

\* C13: a frontend query holding a symbol string that was never interned has
\* no solution: every call of next() returns none, and none fails.
C13_UnknownSymbolNoSolution ==
    (running /\ front.query # <<>> /\ UnknownSymbol) =>
        \A i \in DOMAIN hist : hist[i].status = "none" /\ hist[i].err = ""

\* a query with a variable and an unknown symbol ran to exhaustion on a
\* store that holds facts
C13_Witness ==
    /\ running /\ UnknownSymbol /\ front.vars # <<>>
    /\ db[TupleLen] # <<>>
    /\ hist # <<>> /\ hist[1].status = "none"

\* C14: the frontend's add_fact of a fact holding a string that begins with
\* "?" is rejected, and the fact store and the interning tables stay as they were.
C14_AddFactRejectsVariables ==
    [][(pc = "idle" /\ pc' = "returned" /\ ret'.op = "objects::add_fact"
            /\ \E i \in DOMAIN ret'.arg : StartsWith(ret'.arg[i], <<"?">>))
        => (ret'.status # "ok" /\ db' = db /\ front' = front)]_vars

\* C15: the tables ids and interned are inverse bijections over the ids
\* 0 .. n-1; no frontend step removes an entry or changes the id of a string;
\* add_fact stores the ids of its strings, reusing the id of a string seen before.
C15_InterningConsistency ==
    /\ [](/\ front.ids = {<<front.interned[i], i - 1>> : i \in DOMAIN front.interned}
          /\ \A i, j \in DOMAIN front.interned :
                front.interned[i] = front.interned[j] => i = j)
    /\ [][/\ front.ids \subseteq front'.ids
          /\ Len(front.interned) <= Len(front'.interned)
          /\ SubSeq(front'.interned, 1, Len(front.interned)) = front.interned
          /\ (pc = "idle" /\ pc' = "returned" /\ ret'.op = "objects::add_fact"
                /\ ret'.status = "ok")
             => Last(db'[TupleLen]) =
                    [i \in DOMAIN ret'.arg |-> IdsGet(front', ret'.arg[i]).id]]_vars

\* the second add_fact interned one new string and reused two ids
C15_Witness ==
    /\ pc = "returned" /\ ret.op = "objects::add_fact" /\ ret.status = "ok"
    /\ Len(db[TupleLen]) = 2 /\ Len(front.interned) = 3
    /\ db[TupleLen][1] # db[TupleLen][2]

\* the position of the first occurrence of the variable name n in the query
FirstSeen(n) ==
    SetMin({p \in DOMAIN Flatten(front.query) : Flatten(front.query)[p] = <<"Atom::Var", n>>})

\* C16: run numbers the distinct variable names of a query 0 .. V-1 in the
\* order of their first occurrence, so the compiled query references every id
\* below V and next() never fails with MalformedQuery.
C16_FrontendVarNumbering ==
    (running /\ front.query # <<>>) =>
        /\ \A i, j \in DOMAIN front.vars : front.vars[i] = front.vars[j] => i = j
        /\ Range(front.vars) = Range(VarNames(front.query))
        /\ \A i, j \in DOMAIN front.vars :
              i < j => FirstSeen(front.vars[i]) < FirstSeen(front.vars[j])
        /\ \A k \in DOMAIN query : \A i \in DOMAIN query[k] :
              front.query[k][i][1] = "Atom::Var" =>
                  /\ IsVar(query[k][i])
                  /\ front.vars[query[k][i][2] + 1] = front.query[k][i][2]
        /\ AllVarsReferenced(query)
        /\ \A i \in DOMAIN hist : hist[i].err # "MalformedQuery"

\* the query ?y ?x a returned a solution: ?y has id 0 and ?x has id 1
C16_Witness ==
    /\ running /\ front.vars = << <<"?", "y">>, <<"?", "x">> >>
    /\ hist # <<>> /\ hist[1].status = "some"
    /\ Bindings(front, hist[1].val) # {}

\* C17: in every state of the evaluator between steps, the assignment slots
\* holding a symbol are exactly the variables on the trail, every variable is
\* on the trail at most once, every trail entry names a conjunct below
\* next_unsupported_fact, and the conjunct indices on the trail never decrease
\* from bottom to top.
C17_TrailAssignment ==
    running =>
        /\ {v \in DOMAIN assignment : assignment[v] # Wildcard}
             = {e[2] + 1 : e \in Range(trail)}
        /\ \A v \in DOMAIN assignment :
              assignment[v] = Wildcard \/ \E s \in Syms : assignment[v] = PatSym(s)
        /\ \A i, j \in DOMAIN trail : trail[i][2] = trail[j][2] => i = j
        /\ Len(trail) <= NumVars(query)
        /\ \A i \in DOMAIN trail : trail[i][1] < next_unsupported_fact
        /\ \A i, j \in DOMAIN trail : i < j => trail[i][1] <= trail[j][1]

\* a later call stands on a solution whose two variables were bound by
\* different conjuncts
C17_Witness ==
    /\ running /\ loc = "loop" /\ hist # <<>>
    /\ next_unsupported_fact = 2
    /\ Len(trail) = 2 /\ trail[1][1] = 0 /\ trail[2][1] = 1

\* C18: a backtrack step undoing conjunct k frees exactly the variables first
\* bound at conjunct k and removes exactly their trail entries, adds 1 to the
\* cursor of conjunct k, makes k the next conjunct, and leaves the other
\* slots, the other cursors and the store as they were.
C18_BacktrackFrame ==
    [][(loc = "undo" /\ loc' = "loop") =>
        LET k == next_unsupported_fact - 1
            boundAtK == {e[2] : e \in {t \in Range(trail) : t[1] = k}}
        IN  /\ next_unsupported_fact' = k
            /\ fact_support' = [j \in DOMAIN fact_support |->
                                   IF j = k + 1 THEN fact_support[j] + 1
                                   ELSE fact_support[j]]
            /\ trail' = SelectSeq(trail, LAMBDA e : e[1] # k)
            /\ assignment' = [v \in DOMAIN assignment |->
                                 IF (v - 1) \in boundAtK THEN Wildcard ELSE assignment[v]]
            /\ db' = db]_vars

\* after a backtrack from conjunct 1, which had bound a variable, the
\* binding made by conjunct 0 is still in place
C18_Witness ==
    /\ running /\ loc = "loop" /\ Len(fact_support) = 2
    /\ next_unsupported_fact = 1 /\ fact_support[2] >= 1
    /\ Len(trail) = 1 /\ trail[1][1] = 0
    /\ \E i \in DOMAIN hist : hist[i].status = "some" /\ Len(hist[i].val) = 2

\* C19: in every state of the evaluator between steps, the cursor of every
\* conjunct above next_unsupported_fact is 0.
C19_CursorReset ==
    running =>
        \A j \in DOMAIN fact_support : (j - 1) > next_unsupported_fact => fact_support[j] = 0

\* the search is back at conjunct 0 with its cursor advanced, and the cursor
\* of conjunct 1, which had moved on, is 0 again
C19_Witness ==
    /\ running /\ loc = "loop" /\ Len(fact_support) = 2
    /\ next_unsupported_fact = 0 /\ fact_support[1] >= 1 /\ fact_support[2] = 0
    /\ \E i \in DOMAIN hist : hist[i].status = "some" /\ hist[i].support[2] >= 1

\* C20 as stated: for a query with at least one conjunct, every call of next()
\* starts with next_unsupported_fact at 0 or at the number of conjuncts, and a
\* call has returned an assignment exactly when it ended with
\* next_unsupported_fact at the number of conjuncts, none exactly when it ended at 0.
C20_CallBoundaryAsStated ==
    (running /\ Len(query) >= 1) =>
        /\ next_unsupported_fact \in {0, Len(query)}
        /\ hist # <<>> =>
              /\ Last(hist).status = "some" <=> next_unsupported_fact = Len(query)
              /\ Last(hist).status = "none" <=> next_unsupported_fact = 0

\* C20: for a query with at least one conjunct, every call of next() starts
\* with next_unsupported_fact at 0 or at the number of conjuncts, so the
\* assertion never fails; a call that returns has returned an assignment
\* exactly when it ended at the number of conjuncts and none exactly when it
\* ended at 0; a call that fails has failed with MalformedQuery and ended at
\* the number of conjuncts.
C20_CallBoundary ==
    (running /\ Len(query) >= 1) =>
        /\ next_unsupported_fact \in {0, Len(query)}
        /\ \A i \in DOMAIN hist : hist[i].err # "assert_eq"
        /\ hist # <<>> =>
              CASE Last(hist).status = "some" -> next_unsupported_fact = Len(query)
                [] Last(hist).status = "none" -> next_unsupported_fact = 0
                [] OTHER -> /\ Last(hist).err = "MalformedQuery"
                            /\ next_unsupported_fact = Len(query)

\* a call made on a solution of a two-conjunct query returned none
C20_Witness ==
    /\ running /\ Len(query) = 2
    /\ Len(hist) >= 2 /\ hist[Len(hist) - 1].status = "some" /\ Last(hist).status = "none"
    /\ next_unsupported_fact = 0

\* C21 as stated: every call of next() on a query with at least one conjunct
\* finishes, and has then returned an assignment or none.
C21_TerminationAsStated ==
    (running /\ Len(query) >= 1 /\ loc # "out")
        ~> (loc = "out" /\ hist # <<>> /\ Last(hist).status \in {"some", "none"})

\* C21: every call of next() on a query with at least one conjunct finishes
\* after finitely many forward and backtrack steps; it has then returned an
\* assignment or none, or has failed with MalformedQuery.
C21_Termination ==
    (running /\ Len(query) >= 1 /\ loc # "out")
        ~> (/\ loc = "out" /\ hist # <<>>
            /\ \/ Last(hist).status \in {"some", "none"}
               \/ Last(hist).status = "panic" /\ Last(hist).err = "MalformedQuery")

\* the third call on a two-conjunct query went through its steps and returned none
C21_Witness ==
    /\ running /\ loc = "out" /\ Len(query) = 2
    /\ Len(hist) >= 3 /\ Last(hist).status = "none"
    /\ hist[1].status = "some"

\* C22: in every state of the evaluator between steps, the cursor of every
\* conjunct is at most the number of facts in the bucket the conjunct scans,
\* so next_match never takes a slice that starts past the end of the bucket.
C22_CursorBound ==
    running =>
        /\ \A k \in DOMAIN fact_support : fact_support[k] <= Len(db[Len(query[k])])
        /\ \A i \in DOMAIN hist : hist[i].err # "SliceIndex"

\* a backtrack from the last fact of the bucket left the cursor of conjunct 1
\* at the length of the bucket
C22_Witness ==
    /\ running /\ loc = "loop" /\ Len(fact_support) = 2
    /\ next_unsupported_fact = 1
    /\ Len(db[TupleLen]) = 2 /\ fact_support[2] = Len(db[TupleLen])

\* C23: the first call of next() on a query without conjuncts takes the
\* initial state for a solution state and fails on the decrement of
\* next_unsupported_fact below 0; it returns neither the empty assignment nor none.
C23_EmptyQueryFails ==
    (running /\ query = <<>> /\ hist # <<>>) =>
        /\ hist[1].status = "panic"
        /\ hist[1].err = "Underflow"
        /\ hist[1].val = <<>>
        /\ Len(hist) = 1

\* next() was called on the empty query over a store that holds facts
C23_Witness ==
    /\ running /\ query = <<>> /\ fact_support = <<>>
    /\ db[TupleLen] # <<>>
    /\ Len(hist) = 1 /\ Panicked

====
